---- MODULE Spec2Model ----
(***************************************************************************)
(* Text chunks (tEXt / zTXt / iTXt) of src/text_metadata.rs.               *)
(*                                                                         *)
(* A Rust String is modelled as a sequence of Unicode code points, a       *)
(* Vec<u8> or &[u8] as a sequence of numbers in 0..255.  The three codecs  *)
(* the module uses (ISO-8859-1, ASCII in strict mode, UTF-8) are computed  *)
(* byte by byte.  The zlib stream is modelled by its container: the two    *)
(* header bytes with their FCHECK/FDICT test, a body, and a trailing check *)
(* value over the body; the body stands for the deflate-coded data.        *)
(***************************************************************************)
EXTENDS Integers, Sequences, FiniteSets, TLC

VARIABLES
    rec,    \* the chunk struct in hand (NoRec when the last decode failed)
    pre,    \* the struct as it was when the latest call started
    res,    \* the latest call: its name, Ok/Err, error variant, returned value
    prev,   \* name and outcome of the call before the latest one
    args,   \* the slices handed to the latest call when it was a decode
    w,      \* the writer handed to the latest call when it was an encode
    orig,   \* get_text() of the struct when it was constructed or decoded
    built   \* how the struct in hand was made: "new" by a constructor or a
            \* struct expression, "decode" by a decode function

vars == <<rec, pre, res, prev, args, w, orig, built>>

----------------------------------------------------------------------------
(* Bounds and program constants *)

\* longest text string given to a constructor
MaxTextLen == 2

\* `keyword_slice.len() > 79`, `data.len() > 79`
KeywordMax == 79

----------------------------------------------------------------------------
(* Results *)

Ok(v) == [ok |-> TRUE, err |-> "", val |-> v]
Err(e, v) == [ok |-> FALSE, err |-> e, val |-> v]

Rep(c, n) == [i \in 1..n |-> c]

RECURSIVE Sum(_)
Sum(s) == IF s = <<>> THEN 0 ELSE Head(s) + Sum(Tail(s))

RECURSIVE Concat(_)
Concat(ss) == IF ss = <<>> THEN <<>> ELSE Head(ss) \o Concat(Tail(ss))

----------------------------------------------------------------------------
(* Transcoding: encoding::all::{ISO_8859_1, ASCII} with the Strict traps,  *)
(* str::as_bytes and String::from_utf8                                     *)

\* ISO_8859_1.encode(s, EncoderTrap::Strict): one byte per character, an
\* error at the first character above U+00FF.  val of the error is what had
\* been written before it.
RECURSIVE Latin1Prefix(_)
Latin1Prefix(s) ==
    IF s = <<>> \/ Head(s) > 255 THEN <<>>
    ELSE <<Head(s)>> \o Latin1Prefix(Tail(s))

Latin1Encode(s) ==
    IF \A i \in 1..Len(s) : s[i] <= 255 THEN Ok(s)
    ELSE Err("Unrepresentable", Latin1Prefix(s))

\* ISO_8859_1.decode(b, DecoderTrap::Strict): every byte is a character
Latin1Decode(b) == Ok(b)

\* ASCII.encode_to(s, EncoderTrap::Strict, ..): characters up to U+007F
RECURSIVE AsciiPrefix(_)
AsciiPrefix(s) ==
    IF s = <<>> \/ Head(s) > 127 THEN <<>>
    ELSE <<Head(s)>> \o AsciiPrefix(Tail(s))

AsciiEncode(s) ==
    IF \A i \in 1..Len(s) : s[i] <= 127 THEN Ok(s)
    ELSE Err("Unrepresentable", AsciiPrefix(s))

\* ASCII.decode(b, DecoderTrap::Strict): bytes up to 0x7F
AsciiDecode(b) ==
    IF \A i \in 1..Len(b) : b[i] <= 127 THEN Ok(b)
    ELSE Err("Unrepresentable", <<>>)

\* one character of str::as_bytes
Utf8Char(c) ==
    IF c < 128 THEN <<c>>
    ELSE IF c < 2048 THEN <<192 + (c \div 64), 128 + (c % 64)>>
    ELSE IF c < 65536 THEN
        <<224 + (c \div 4096), 128 + ((c \div 64) % 64), 128 + (c % 64)>>
    ELSE <<240 + (c \div 262144), 128 + ((c \div 4096) % 64),
           128 + ((c \div 64) % 64), 128 + (c % 64)>>

\* s.as_bytes()
Utf8Encode(s) == Concat([i \in 1..Len(s) |-> Utf8Char(s[i])])

IsCont(b, i) == i <= Len(b) /\ b[i] >= 128 /\ b[i] < 192

\* String::from_utf8: the characters of b from position i on, or <<-1>> at
\* the first ill-formed sequence (overlong forms, surrogates and values past
\* U+10FFFF are ill-formed)
RECURSIVE Utf8Chars(_, _)
Utf8Chars(b, i) ==
    IF i > Len(b) THEN <<>>
    ELSE LET b0 == b[i] IN
      IF b0 < 128 THEN
          LET rest == Utf8Chars(b, i + 1) IN
          IF rest = <<-1>> THEN rest ELSE <<b0>> \o rest
      ELSE IF b0 >= 194 /\ b0 < 224 /\ IsCont(b, i + 1) THEN
          LET c == (b0 - 192) * 64 + (b[i + 1] - 128)
              rest == Utf8Chars(b, i + 2) IN
          IF rest = <<-1>> THEN rest ELSE <<c>> \o rest
      ELSE IF b0 >= 224 /\ b0 < 240 /\ IsCont(b, i + 1) /\ IsCont(b, i + 2) THEN
          LET c == (b0 - 224) * 4096 + (b[i + 1] - 128) * 64 + (b[i + 2] - 128) IN
          IF c < 2048 \/ (c >= 55296 /\ c <= 57343) THEN <<-1>>
          ELSE LET rest == Utf8Chars(b, i + 3) IN
               IF rest = <<-1>> THEN rest ELSE <<c>> \o rest
      ELSE IF b0 >= 240 /\ b0 < 245 /\ IsCont(b, i + 1) /\ IsCont(b, i + 2)
              /\ IsCont(b, i + 3) THEN
          LET c == (b0 - 240) * 262144 + (b[i + 1] - 128) * 4096
                   + (b[i + 2] - 128) * 64 + (b[i + 3] - 128) IN
          IF c < 65536 \/ c > 1114111 THEN <<-1>>
          ELSE LET rest == Utf8Chars(b, i + 4) IN
               IF rest = <<-1>> THEN rest ELSE <<c>> \o rest
      ELSE <<-1>>

Utf8Decode(b) ==
    LET cs == Utf8Chars(b, 1) IN
    IF cs = <<-1>> THEN Err("Unrepresentable", <<>>) ELSE Ok(cs)

----------------------------------------------------------------------------
(* Compression: deflate::write::ZlibEncoder with Compression::Fast and     *)
(* miniz_oxide::inflate::decompress_to_vec_zlib                            *)

\* the check value that ends a zlib stream, over the uncompressed bytes
ZlibCheck(raw) == (1 + Sum(raw)) % 256

\* a stream that finish() never ended: no check value
Deflate_unfinished(raw) == <<120, 1>> \o raw

\* ZlibEncoder::new(Vec::new(), Compression::Fast), write_all(raw), finish():
\* header 0x78 0x01, the coded body, the check value.  Writing to a Vec
\* does not fail.
Deflate(raw) == <<120, 1>> \o raw \o <<ZlibCheck(raw)>>

\* decompress_to_vec_zlib(v): the header must be CM = 8 / CINFO = 7 with a
\* valid FCHECK and no preset dictionary, and the check value must match
Inflate(v) ==
    IF /\ Len(v) >= 3
       /\ v[1] = 120
       /\ (v[1] * 256 + v[2]) % 31 = 0
       /\ (v[2] \div 32) % 2 = 0
       /\ v[Len(v)] = ZlibCheck(SubSeq(v, 3, Len(v) - 1))
    THEN Ok(SubSeq(v, 3, Len(v) - 1))
    ELSE Err("InflationError", <<>>)

----------------------------------------------------------------------------
(* The structs *)

NoRec == [kind |-> "none"]

Compressed(v) == [tag |-> "Compressed", v |-> v]
Uncompressed(s) == [tag |-> "Uncompressed", v |-> s]

\* TEXtChunk::new
TEXtChunk_new(keyword, text) == [kind |-> "tEXt", keyword |-> keyword, text |-> text]

\* ZTXtChunk::new
ZTXtChunk_new(keyword, text) ==
    [kind |-> "zTXt", keyword |-> keyword,
     optionally_compressed_text |-> Uncompressed(text)]

\* `ZTXtChunk { keyword, optionally_compressed_text: OptCompressed::Compressed(c) }`:
\* both fields are public
ZTXtChunk_compressed(keyword, c) ==
    [kind |-> "zTXt", keyword |-> keyword,
     optionally_compressed_text |-> Compressed(c)]

\* "Default keyword"
DefaultKeyword ==
    <<68, 101, 102, 97, 117, 108, 116, 32, 107, 101, 121, 119, 111, 114, 100>>

\* ITXtChunk::default
ITXtChunk_default ==
    [kind |-> "iTXt", keyword |-> DefaultKeyword, compressed |-> FALSE,
     language_tag |-> <<>>, translated_keyword |-> <<>>,
     optionally_compressed_text |-> Uncompressed(<<>>)]

\* ITXtChunk::new
ITXtChunk_new(keyword, text) ==
    [ITXtChunk_default EXCEPT !.keyword = keyword,
                        !.optionally_compressed_text = Uncompressed(text)]

----------------------------------------------------------------------------
(* decode *)

\* the size test with the limit one too high
KeywordSizeOk_80(bytes) == ~(Len(bytes) = 0 \/ Len(bytes) > KeywordMax + 1)

KeywordSizeOk(bytes) == ~(Len(bytes) = 0 \/ Len(bytes) > KeywordMax)

\* TEXtChunk::decode
TEXtChunk_decode(keyword_slice, text_slice) ==
    IF ~KeywordSizeOk(keyword_slice) THEN Err("InvalidKeywordSize", NoRec)
    ELSE LET keyword == Latin1Decode(keyword_slice)
             text == Latin1Decode(text_slice) IN
         IF ~keyword.ok THEN Err("Unrepresentable", NoRec)
         ELSE IF ~text.ok THEN Err("Unrepresentable", NoRec)
         ELSE Ok([kind |-> "tEXt", keyword |-> keyword.val, text |-> text.val])

\* decode that inflates at once
ZTXtChunk_decode_eager(keyword_slice, compression_method, text_slice) ==
    IF ~KeywordSizeOk(keyword_slice) THEN Err("InvalidKeywordSize", NoRec)
    ELSE IF compression_method # 0 THEN Err("InvalidCompressionMethod", NoRec)
    ELSE LET uncompressed_raw == Inflate(text_slice) IN
         IF ~uncompressed_raw.ok THEN Err("InflationError", NoRec)
         ELSE Ok([kind |-> "zTXt", keyword |-> keyword_slice,
                  optionally_compressed_text |->
                      Uncompressed(uncompressed_raw.val)])

\* ZTXtChunk::decode
ZTXtChunk_decode(keyword_slice, compression_method, text_slice) ==
    IF ~KeywordSizeOk(keyword_slice) THEN Err("InvalidKeywordSize", NoRec)
    ELSE IF compression_method # 0 THEN Err("InvalidCompressionMethod", NoRec)
    ELSE LET keyword == Latin1Decode(keyword_slice) IN
         IF ~keyword.ok THEN Err("Unrepresentable", NoRec)
         ELSE Ok([kind |-> "zTXt", keyword |-> keyword.val,
                  optionally_compressed_text |-> Compressed(text_slice)])

\* the flag read as "not zero"
CompressionFlag_nonzero(compression_flag) ==
    IF compression_flag = 0 THEN Ok(FALSE) ELSE Ok(TRUE)

\* ITXtChunk::decode: `match compression_flag { 0 => false, 255 => true, _ => .. }`
CompressionFlag(compression_flag) ==
    IF compression_flag = 0 THEN Ok(FALSE)
    ELSE IF compression_flag = 255 THEN Ok(TRUE)
    ELSE Err("InvalidCompressionFlag", FALSE)

\* the method byte tested whatever the flag
MethodRejected_unconditional(compressed, compression_method) ==
    compression_method # 0

\* ITXtChunk::decode: `compressed && compression_method != 0`
MethodRejected(compressed, compression_method) ==
    compressed /\ compression_method # 0

\* ITXtChunk::decode
ITXtChunk_decode(keyword_slice, compression_flag, compression_method, language_tag_slice, translated_keyword_slice, text_slice) ==
    IF ~KeywordSizeOk(keyword_slice) THEN Err("InvalidKeywordSize", NoRec)
    ELSE LET keyword == Latin1Decode(keyword_slice) IN
    IF ~keyword.ok THEN Err("Unrepresentable", NoRec)
    ELSE LET flag == CompressionFlag(compression_flag) IN
    IF ~flag.ok THEN Err(flag.err, NoRec)
    ELSE LET compressed == flag.val IN
    IF MethodRejected(compressed, compression_method) THEN
        Err("InvalidCompressionMethod", NoRec)
    ELSE LET language_tag == AsciiDecode(language_tag_slice) IN
    IF ~language_tag.ok THEN Err("Unrepresentable", NoRec)
    ELSE LET translated_keyword == Utf8Decode(translated_keyword_slice) IN
    IF ~translated_keyword.ok THEN Err("Unrepresentable", NoRec)
    ELSE LET text == IF compressed THEN Ok(<<>>) ELSE Utf8Decode(text_slice) IN
    IF ~text.ok THEN Err("Unrepresentable", NoRec)
    ELSE Ok([kind |-> "iTXt", keyword |-> keyword.val,
             compressed |-> compressed,
             language_tag |-> language_tag.val,
             translated_keyword |-> translated_keyword.val,
             optionally_compressed_text |->
                 IF compressed THEN Compressed(text_slice)
                 ELSE Uncompressed(text.val)])

----------------------------------------------------------------------------
(* decompress_text, get_text, compress_text.  A &mut self method answers    *)
(* with its Result and the struct it leaves behind.                        *)

MutOk(self) == [ok |-> TRUE, err |-> "", val |-> <<>>, self |-> self]
MutErr(e, self) == [ok |-> FALSE, err |-> e, val |-> <<>>, self |-> self]

\* ZTXtChunk::decompress_text
ZTXtChunk_decompress_text(self) ==
    LET t == self.optionally_compressed_text IN
    IF t.tag = "Compressed" THEN
        LET uncompressed_raw == Inflate(t.v) IN
        IF ~uncompressed_raw.ok THEN MutErr("InflationError", self)
        ELSE LET s == Latin1Decode(uncompressed_raw.val) IN
             IF ~s.ok THEN MutErr("Unrepresentable", self)
             ELSE MutOk([self EXCEPT
                         !.optionally_compressed_text = Uncompressed(s.val)])
    ELSE MutOk(self)

\* ZTXtChunk::get_text
ZTXtChunk_get_text(self) ==
    LET t == self.optionally_compressed_text IN
    IF t.tag = "Compressed" THEN
        LET uncompressed_raw == Inflate(t.v) IN
        IF ~uncompressed_raw.ok THEN Err("InflationError", <<>>)
        ELSE LET s == Latin1Decode(uncompressed_raw.val) IN
             IF ~s.ok THEN Err("Unrepresentable", <<>>) ELSE Ok(s.val)
    ELSE Ok(t.v)

\* ZTXtChunk::compress_text
ZTXtChunk_compress_text(self) ==
    LET t == self.optionally_compressed_text IN
    IF t.tag = "Uncompressed" THEN
        LET uncompressed_raw == Latin1Encode(t.v) IN
        IF ~uncompressed_raw.ok THEN MutErr("Unrepresentable", self)
        ELSE MutOk([self EXCEPT !.optionally_compressed_text =
                        Compressed(Deflate(uncompressed_raw.val))])
    ELSE MutOk(self)

\* decompress_text that has emptied the text before inflation is known to
\* have worked
ITXtChunk_decompress_text_take(self) ==
    LET t == self.optionally_compressed_text
        taken == [self EXCEPT !.optionally_compressed_text = Uncompressed(<<>>)] IN
    IF t.tag = "Compressed" THEN
        LET uncompressed_raw == Inflate(t.v) IN
        IF ~uncompressed_raw.ok THEN MutErr("InflationError", taken)
        ELSE LET s == Utf8Decode(uncompressed_raw.val) IN
             IF ~s.ok THEN MutErr("Unrepresentable", taken)
             ELSE MutOk([self EXCEPT
                         !.optionally_compressed_text = Uncompressed(s.val)])
    ELSE MutOk(self)

\* ITXtChunk::decompress_text
ITXtChunk_decompress_text(self) ==
    LET t == self.optionally_compressed_text IN
    IF t.tag = "Compressed" THEN
        LET uncompressed_raw == Inflate(t.v) IN
        IF ~uncompressed_raw.ok THEN MutErr("InflationError", self)
        ELSE LET s == Utf8Decode(uncompressed_raw.val) IN
             IF ~s.ok THEN MutErr("Unrepresentable", self)
             ELSE MutOk([self EXCEPT
                         !.optionally_compressed_text = Uncompressed(s.val)])
    ELSE MutOk(self)

\* ITXtChunk::get_text
ITXtChunk_get_text(self) ==
    LET t == self.optionally_compressed_text IN
    IF t.tag = "Compressed" THEN
        LET uncompressed_raw == Inflate(t.v) IN
        IF ~uncompressed_raw.ok THEN Err("InflationError", <<>>)
        ELSE LET s == Utf8Decode(uncompressed_raw.val) IN
             IF ~s.ok THEN Err("Unrepresentable", <<>>) ELSE Ok(s.val)
    ELSE Ok(t.v)

\* compress_text that also turns the compression flag on
ITXtChunk_compress_text_setflag(self) ==
    LET t == self.optionally_compressed_text IN
    IF t.tag = "Uncompressed" THEN
        MutOk([self EXCEPT !.compressed = TRUE,
                           !.optionally_compressed_text =
                               Compressed(Deflate(Utf8Encode(t.v)))])
    ELSE MutOk(self)

\* ITXtChunk::compress_text
ITXtChunk_compress_text(self) ==
    LET t == self.optionally_compressed_text IN
    IF t.tag = "Uncompressed" THEN
        MutOk([self EXCEPT !.optionally_compressed_text =
                   Compressed(Deflate(Utf8Encode(t.v)))])
    ELSE MutOk(self)

----------------------------------------------------------------------------
(* encode.  val of the Result is the buffer `data`: the payload on Ok, and  *)
(* on Err what had been appended to it when the error was returned.        *)

\* TEXtChunk::encode, up to the call of write_chunk
TEXtChunk_encode(self) ==
    LET keyword == Latin1Encode(self.keyword) IN
    IF ~keyword.ok THEN Err("Unrepresentable", <<>>)
    ELSE IF ~KeywordSizeOk(keyword.val) THEN
        Err("InvalidKeywordSize", keyword.val)
    ELSE LET data == keyword.val \o <<0>>
             text == Latin1Encode(self.text) IN
         IF ~text.ok THEN Err("Unrepresentable", data \o text.val)
         ELSE Ok(data \o text.val)

\* encode that inflates the stored bytes and compresses them again
ZTXtChunk_encode_recompress(self) ==
    LET keyword == Latin1Encode(self.keyword) IN
    IF ~keyword.ok THEN Err("Unrepresentable", <<>>)
    ELSE IF ~KeywordSizeOk(keyword.val) THEN
        Err("InvalidKeywordSize", keyword.val)
    ELSE LET data == keyword.val \o <<0>> \o <<0>>
             t == self.optionally_compressed_text IN
         IF t.tag = "Compressed" THEN
             LET uncompressed_raw == Inflate(t.v) IN
             IF ~uncompressed_raw.ok THEN Err("CompressionError", data)
             ELSE Ok(data \o Deflate(uncompressed_raw.val))
         ELSE LET uncompressed_raw == Latin1Encode(t.v) IN
              IF ~uncompressed_raw.ok THEN Err("Unrepresentable", data)
              ELSE Ok(data \o Deflate(uncompressed_raw.val))

\* ZTXtChunk::encode, up to the call of write_chunk
ZTXtChunk_encode(self) ==
    LET keyword == Latin1Encode(self.keyword) IN
    IF ~keyword.ok THEN Err("Unrepresentable", <<>>)
    ELSE IF ~KeywordSizeOk(keyword.val) THEN
        Err("InvalidKeywordSize", keyword.val)
    ELSE LET data == keyword.val \o <<0>> \o <<0>>
             t == self.optionally_compressed_text IN
         IF t.tag = "Compressed" THEN Ok(data \o t.v)
         ELSE LET uncompressed_raw == Latin1Encode(t.v) IN
              IF ~uncompressed_raw.ok THEN Err("Unrepresentable", data)
              ELSE Ok(data \o Deflate(uncompressed_raw.val))

\* the text field written in whichever form the record holds
ITXtChunk_encode_text_by_state(self, data) ==
    LET t == self.optionally_compressed_text IN
    IF t.tag = "Compressed" THEN Ok(data \o t.v)
    ELSE Ok(data \o Utf8Encode(t.v))

\* ITXtChunk::encode, the text field appended to data
ITXtChunk_encode_text(self, data) ==
    LET t == self.optionally_compressed_text IN
    IF self.compressed THEN
        IF t.tag = "Compressed" THEN Ok(data \o t.v)
        ELSE Ok(data \o Deflate(Utf8Encode(t.v)))
    ELSE
        IF t.tag = "Compressed" THEN
            LET uncompressed_raw == Inflate(t.v) IN
            IF ~uncompressed_raw.ok THEN Err("CompressionError", data)
            ELSE Ok(data \o uncompressed_raw.val)
        ELSE Ok(data \o Utf8Encode(t.v))

\* ITXtChunk::encode, up to the call of write_chunk
ITXtChunk_encode(self) ==
    LET keyword == Latin1Encode(self.keyword) IN
    IF ~keyword.ok THEN Err("Unrepresentable", <<>>)
    ELSE IF ~KeywordSizeOk(keyword.val) THEN
        Err("InvalidKeywordSize", keyword.val)
    ELSE LET head == keyword.val \o <<0>>
                     \o <<IF self.compressed THEN 255 ELSE 0>> \o <<0>>
             language_tag == AsciiEncode(self.language_tag) IN
    IF ~language_tag.ok THEN Err("Unrepresentable", head \o language_tag.val)
    ELSE LET data == head \o language_tag.val \o <<0>>
                     \o Utf8Encode(self.translated_keyword) \o <<0>> IN
         ITXtChunk_encode_text(self, data)

\* the buffer written also when a field failed
write_chunk_partial(sink, type, data) ==
    IF data.val # <<>> THEN Append(sink, [type |-> type, data |-> data.val])
    ELSE sink

\* the last statement of each encode: `?` has returned every Err before
\* encoder::write_chunk(w, chunk::.., &data) is reached
write_chunk(sink, type, data) ==
    IF data.ok THEN Append(sink, [type |-> type, data |-> data.val]) ELSE sink

----------------------------------------------------------------------------
(* The chunk reader: the payload of a chunk, cut into the fields the       *)
(* decode functions take, by the wire layout                               *)
(*   tEXt  keyword 0x00 text                                               *)
(*   zTXt  keyword 0x00 method text                                        *)
(*   iTXt  keyword 0x00 flag method language-tag 0x00                      *)
(*         translated-keyword 0x00 text                                    *)

\* position of the first 0x00 of b, 0 when there is none
NulIndex(b) ==
    IF \E i \in 1..Len(b) : b[i] = 0
    THEN CHOOSE i \in 1..Len(b) : b[i] = 0 /\ \A j \in 1..(i - 1) : b[j] # 0
    ELSE 0

From(b, i) == SubSeq(b, i, Len(b))

SplitTEXt(b) ==
    LET n == NulIndex(b) IN
    IF n = 0 THEN Err("MissingNullSeparator", <<>>)
    ELSE Ok([keyword_slice |-> SubSeq(b, 1, n - 1),
             text_slice |-> From(b, n + 1)])

SplitZTXt(b) ==
    LET n == NulIndex(b) IN
    IF n = 0 THEN Err("MissingNullSeparator", <<>>)
    ELSE IF Len(b) < n + 1 THEN Err("InvalidCompressionMethod", <<>>)
    ELSE Ok([keyword_slice |-> SubSeq(b, 1, n - 1),
             compression_method |-> b[n + 1],
             text_slice |-> From(b, n + 2)])

SplitITXt(b) ==
    LET n == NulIndex(b) IN
    IF n = 0 THEN Err("MissingNullSeparator", <<>>)
    ELSE IF Len(b) < n + 1 THEN Err("MissingCompressionFlag", <<>>)
    ELSE IF Len(b) < n + 2 THEN Err("InvalidCompressionMethod", <<>>)
    ELSE LET r1 == From(b, n + 3)
             n1 == NulIndex(r1) IN
    IF n1 = 0 THEN Err("MissingNullSeparator", <<>>)
    ELSE LET r2 == From(r1, n1 + 1)
             n2 == NulIndex(r2) IN
    IF n2 = 0 THEN Err("MissingNullSeparator", <<>>)
    ELSE Ok([keyword_slice |-> SubSeq(b, 1, n - 1),
             compression_flag |-> b[n + 1],
             compression_method |-> b[n + 2],
             language_tag_slice |-> SubSeq(r1, 1, n1 - 1),
             translated_keyword_slice |-> SubSeq(r2, 1, n2 - 1),
             text_slice |-> From(r2, n2 + 1)])

\* decode of the fields a split gave
DecodeFields(kind, f) ==
    IF kind = "tEXt" THEN TEXtChunk_decode(f.keyword_slice, f.text_slice)
    ELSE IF kind = "zTXt" THEN
        ZTXtChunk_decode(f.keyword_slice, f.compression_method, f.text_slice)
    ELSE ITXtChunk_decode(f.keyword_slice, f.compression_flag,
                          f.compression_method, f.language_tag_slice,
                          f.translated_keyword_slice, f.text_slice)

----------------------------------------------------------------------------
(* Inputs *)

\* NUL, 'A', U+00E9 (Latin-1, two bytes of UTF-8), U+0932 (three bytes)
TextChars == {0, 65, 233, 2354}

TextStrs == UNION {[1..n -> TextChars] : n \in 0..MaxTextLen}

\* the texts ISO-8859-1 represents
Latin1TextStrs == {s \in TextStrs : \A i \in 1..Len(s) : s[i] <= 255}

KeywordStrs ==
    {<<>>, <<65>>, <<65, 0>>, <<2354>>, Rep(233, KeywordMax),
     Rep(65, KeywordMax + 1), Rep(2354, KeywordMax + 1)}

\* (language tag, translated keyword): the defaults, "hi" with U+0932, a tag
\* that is not ASCII, a NUL in either
LanguageFields ==
    {<<<<>>, <<>>>>, <<<<104, 105>>, <<2354>>>>, <<<<233>>, <<>>>>,
     <<<<0>>, <<>>>>, <<<<>>, <<0>>>>}

KeywordSlices == {<<>>, <<65>>, Rep(233, KeywordMax), Rep(65, KeywordMax + 1)}

Bytes == 0..255

\* (flag, method) pairs: every flag, and every method under both legal flags
FlagMethods == (Bytes \X {0}) \cup ({0, 255} \X Bytes) \cup {<<1, 1>>, <<254, 255>>}

LanguageTagSlices == {<<104, 105>>, <<128>>}

TranslatedKeywordSlices == {<<224, 164, 178>>, <<255>>}

\* empty, "A", U+0932, ill-formed UTF-8 (a lone 0xFF, a truncated sequence),
\* zlib streams of "A" with the headers 78 01 and 78 9C, a stream with a wrong
\* check value, a stream of the ill-formed byte 0xFF
TextSlices ==
    {<<>>, <<65>>, <<224, 164, 178>>, <<255>>, <<195>>,
     <<120, 1, 65, 66>>, <<120, 156, 65, 66>>, <<120, 1, 65, 67>>,
     <<120, 1, 255, 0>>}

ITXtTextSlices ==
    {<<65>>, <<195>>, <<120, 156, 65, 66>>, <<120, 1, 65, 67>>,
     <<120, 1, 255, 0>>}

----------------------------------------------------------------------------
(* State *)

NoCall == [op |-> "", ok |-> TRUE]

\* the latest call was no decode
NoArgs == [kind |-> "none"]

Call(name, r) == [op |-> name, ok |-> r.ok, err |-> r.err, val |-> r.val]

\* get_text of whichever struct; the text field of a TEXtChunk
GetText(r) ==
    IF r.kind = "tEXt" THEN Ok(r.text)
    ELSE IF r.kind = "zTXt" THEN ZTXtChunk_get_text(r)
    ELSE IF r.kind = "iTXt" THEN ITXtChunk_get_text(r)
    ELSE Err("none", <<>>)

Init ==
    /\ rec = NoRec
    /\ pre = NoRec
    /\ res = Call("", Ok(<<>>))
    /\ prev = NoCall
    /\ args = NoArgs
    /\ w = <<>>
    /\ orig = GetText(NoRec)
    /\ built = ""

\* a constructor or a struct expression has returned
Constructed == Call("new", Ok(<<>>))

\* no struct has been made yet: a behaviour follows one struct, structs share
\* no state
Nothing == rec = NoRec /\ res.op = ""

\* a struct comes into being: by a constructor, a struct expression or decode
Fresh(r, call, a) ==
    /\ rec' = r
    /\ pre' = NoRec
    /\ res' = call
    /\ prev' = NoCall
    /\ args' = a
    /\ w' = <<>>
    /\ orig' = GetText(r)
    /\ built' = call.op

CallTEXtNew ==
    /\ Nothing
    /\ \E keyword \in KeywordStrs, text \in TextStrs :
        Fresh(TEXtChunk_new(keyword, text), Constructed, NoArgs)

CallZTXtNew ==
    /\ Nothing
    /\ \E keyword \in KeywordStrs, text \in TextStrs :
        Fresh(ZTXtChunk_new(keyword, text), Constructed, NoArgs)

\* a ZTXtChunk written as a struct expression around the compression of a
\* Latin-1 text
CallZTXtCompressed ==
    /\ Nothing
    /\ \E keyword \in KeywordStrs, text \in Latin1TextStrs :
        Fresh(ZTXtChunk_compressed(keyword, Deflate(Latin1Encode(text).val)),
              Constructed, NoArgs)

CallITXtNew ==
    /\ Nothing
    /\ \E keyword \in KeywordStrs, text \in TextStrs :
        Fresh(ITXtChunk_new(keyword, text), Constructed, NoArgs)

\* the fields are public: `chunk.compressed = true; chunk.language_tag = ..;
\* chunk.translated_keyword = ..;` on a struct just constructed or decoded
SetFields ==
    /\ rec.kind = "iTXt"
    /\ res.op \in {"new", "decode"}
    /\ prev = NoCall
    /\ pre = NoRec
    /\ \E b \in BOOLEAN, lt \in LanguageFields :
        Fresh([rec EXCEPT !.compressed = b, !.language_tag = lt[1],
                          !.translated_keyword = lt[2]],
              Constructed, NoArgs)

Decoded(r, a) == Fresh(r.val, Call("decode", [r EXCEPT !.val = <<>>]), a)

CallTEXtDecode ==
    /\ Nothing
    /\ \E keyword_slice \in KeywordSlices, text_slice \in TextSlices :
        Decoded(TEXtChunk_decode(keyword_slice, text_slice),
                [kind |-> "tEXt", keyword_slice |-> keyword_slice,
                 text_slice |-> text_slice])

CallZTXtDecode ==
    /\ Nothing
    /\ \E keyword_slice \in KeywordSlices, compression_method \in Bytes,
       text_slice \in TextSlices :
        Decoded(ZTXtChunk_decode(keyword_slice, compression_method, text_slice),
                [kind |-> "zTXt", keyword_slice |-> keyword_slice,
                 compression_method |-> compression_method,
                 text_slice |-> text_slice])

CallITXtDecode ==
    /\ Nothing
    /\ \E keyword_slice \in KeywordSlices, fm \in FlagMethods,
       language_tag_slice \in LanguageTagSlices,
       translated_keyword_slice \in TranslatedKeywordSlices,
       text_slice \in ITXtTextSlices :
        Decoded(ITXtChunk_decode(keyword_slice, fm[1], fm[2], language_tag_slice,
                                 translated_keyword_slice, text_slice),
                [kind |-> "iTXt", keyword_slice |-> keyword_slice,
                 compression_flag |-> fm[1], compression_method |-> fm[2],
                 language_tag_slice |-> language_tag_slice,
                 translated_keyword_slice |-> translated_keyword_slice,
                 text_slice |-> text_slice])

\* a &mut self method
Mutating(name, r) ==
    /\ rec' = r.self
    /\ pre' = rec
    /\ res' = Call(name, r)
    /\ prev' = [op |-> res.op, ok |-> res.ok]
    /\ args' = NoArgs
    /\ w' = <<>>
    /\ UNCHANGED <<orig, built>>

\* a &self method that returns a value
Reading(name, r) ==
    /\ res' = Call(name, r)
    /\ pre' = rec
    /\ prev' = [op |-> res.op, ok |-> res.ok]
    /\ args' = NoArgs
    /\ w' = <<>>
    /\ UNCHANGED <<rec, orig, built>>

\* encode(&self, w) with an empty writer
Encoding(type, r) ==
    /\ res' = Call("encode", r)
    /\ pre' = rec
    /\ prev' = [op |-> res.op, ok |-> res.ok]
    /\ args' = NoArgs
    /\ w' = write_chunk(<<>>, type, r)
    /\ UNCHANGED <<rec, orig, built>>

CallZTXtDecompressText ==
    rec.kind = "zTXt" /\ Mutating("decompress_text", ZTXtChunk_decompress_text(rec))

CallZTXtGetText ==
    rec.kind = "zTXt" /\ Reading("get_text", ZTXtChunk_get_text(rec))

CallZTXtCompressText ==
    rec.kind = "zTXt" /\ Mutating("compress_text", ZTXtChunk_compress_text(rec))

CallITXtDecompressText ==
    rec.kind = "iTXt" /\ Mutating("decompress_text", ITXtChunk_decompress_text(rec))

CallITXtGetText ==
    rec.kind = "iTXt" /\ Reading("get_text", ITXtChunk_get_text(rec))

CallITXtCompressText ==
    rec.kind = "iTXt" /\ Mutating("compress_text", ITXtChunk_compress_text(rec))

CallTEXtEncode ==
    rec.kind = "tEXt" /\ Encoding("tEXt", TEXtChunk_encode(rec))

CallZTXtEncode ==
    rec.kind = "zTXt" /\ Encoding("zTXt", ZTXtChunk_encode(rec))

CallITXtEncode ==
    rec.kind = "iTXt" /\ Encoding("iTXt", ITXtChunk_encode(rec))

\* the chunk just written is read back: split by its layout, then decoded
ReadBack ==
    /\ res.op = "encode"
    /\ Len(w) = 1
    /\ LET chunk == w[1]
           f == IF chunk.type = "tEXt" THEN SplitTEXt(chunk.data)
                ELSE IF chunk.type = "zTXt" THEN SplitZTXt(chunk.data)
                ELSE SplitITXt(chunk.data)
           r == IF f.ok THEN DecodeFields(chunk.type, f.val)
                ELSE Err(f.err, NoRec) IN
       /\ rec' = r.val
       /\ pre' = rec
       /\ res' = Call("decode", [r EXCEPT !.val = <<>>])
       /\ prev' = [op |-> res.op, ok |-> res.ok]
       /\ args' = IF f.ok THEN [kind |-> chunk.type] @@ f.val ELSE NoArgs
       /\ w' = <<>>
       /\ orig' = GetText(r.val)
       /\ built' = "decode"

Next ==
    \/ CallTEXtNew
    \/ CallZTXtNew
    \/ CallZTXtCompressed
    \/ CallITXtNew
    \/ SetFields
    \/ CallTEXtDecode
    \/ CallZTXtDecode
    \/ CallITXtDecode
    \/ CallZTXtDecompressText
    \/ CallZTXtGetText
    \/ CallZTXtCompressText
    \/ CallITXtDecompressText
    \/ CallITXtGetText
    \/ CallITXtCompressText
    \/ CallTEXtEncode
    \/ CallZTXtEncode
    \/ CallITXtEncode
    \/ ReadBack

Spec == Init /\ [][Next]_vars

----------------------------------------------------------------------------
(* Properties *)

Latin1Str(s) == \A i \in 1..Len(s) : s[i] <= 255
AsciiStr(s) == \A i \in 1..Len(s) : s[i] <= 127
NoNul(s) == \A i \in 1..Len(s) : s[i] # 0

\* the latest call was a decode of a chunk of this kind
DecodeOf(kind) == res.op = "decode" /\ args.kind = kind

\* a record as the round-trip law takes it: a keyword of 1-79 Latin-1
\* characters, an ASCII language tag, text the chunk's charset represents,
\* stored compressed bytes that inflate to well-formed text
ValidRecord(r) ==
    /\ r.kind \in {"tEXt", "zTXt", "iTXt"}
    /\ Len(r.keyword) >= 1 /\ Len(r.keyword) <= 79 /\ Latin1Str(r.keyword)
    /\ r.kind = "tEXt" => Latin1Str(r.text)
    /\ r.kind = "zTXt" =>
          /\ GetText(r).ok
          /\ Latin1Str(GetText(r).val)
    /\ r.kind = "iTXt" =>
          /\ AsciiStr(r.language_tag)
          /\ GetText(r).ok

\* the fields two records of one kind have besides the text
SameFields(a, b) ==
    /\ a.kind = b.kind
    /\ a.keyword = b.keyword
    /\ a.kind = "iTXt" =>
          /\ a.compressed = b.compressed
          /\ a.language_tag = b.language_tag
          /\ a.translated_keyword = b.translated_keyword

\* C1: a valid record that is encoded, split at the separators and decoded
\* comes back with the same keyword, flag, language tag and translated
\* keyword and the same get_text().
C1_RoundTrip ==
    (res.op = "decode" /\ prev.op = "encode" /\ ValidRecord(pre)) =>
        /\ res.ok
        /\ SameFields(rec, pre)
        /\ GetText(rec) = GetText(pre)

\* C2, as claimed: decode of a keyword slice of length 0 or 80 and more, and
\* encode of a keyword string that is empty or has 80 and more characters,
\* return InvalidKeywordSize.
C2_KeywordSize ==
    /\ (res.op = "decode" /\ args.kind # "none"
        /\ (Len(args.keyword_slice) = 0 \/ Len(args.keyword_slice) >= 80)) =>
            (~res.ok /\ res.err = "InvalidKeywordSize" /\ rec = NoRec)
    /\ (res.op = "encode"
        /\ (Len(rec.keyword) = 0 \/ Len(rec.keyword) >= 80)) =>
            (~res.ok /\ res.err = "InvalidKeywordSize")

\* C2, amended: decode as claimed; encode returns InvalidKeywordSize for a
\* keyword that is empty or has 80 and more characters when every character
\* is Latin-1, and Unrepresentable for a keyword with a character outside
\* Latin-1, whatever its length.
C2_KeywordSizeLatin1 ==
    /\ (res.op = "decode" /\ args.kind # "none"
        /\ (Len(args.keyword_slice) = 0 \/ Len(args.keyword_slice) >= 80)) =>
            (~res.ok /\ res.err = "InvalidKeywordSize" /\ rec = NoRec)
    /\ (res.op = "encode"
        /\ (Len(rec.keyword) = 0 \/ Len(rec.keyword) >= 80)) =>
            /\ ~res.ok
            /\ Latin1Str(rec.keyword) => res.err = "InvalidKeywordSize"
            /\ ~Latin1Str(rec.keyword) => res.err = "Unrepresentable"
    /\ (res.op = "encode" /\ ~Latin1Str(rec.keyword)) =>
            (~res.ok /\ res.err = "Unrepresentable")

\* an encode of an 80-character Latin-1 keyword has returned
C2_Witness ==
    /\ res.op = "encode"
    /\ rec.kind = "iTXt"
    /\ Len(rec.keyword) = 80
    /\ Latin1Str(rec.keyword)
    /\ res.err = "InvalidKeywordSize"

\* C3: ITXtChunk::decode with a keyword of 1-79 bytes returns
\* InvalidCompressionFlag and no record for every flag byte in 1..254,
\* whatever the other fields hold, and a record it returns has compressed
\* false for flag 0 and true for flag 255.
C3_CompressionFlag ==
    (DecodeOf("iTXt") /\ Len(args.keyword_slice) \in 1..79) =>
        /\ args.compression_flag \in 1..254 =>
              (~res.ok /\ res.err = "InvalidCompressionFlag" /\ rec = NoRec)
        /\ args.compression_flag \in {0, 255} =>
              res.err # "InvalidCompressionFlag"
        /\ res.ok => /\ args.compression_flag \in {0, 255}
                     /\ rec.compressed = (args.compression_flag = 255)

\* flag 128 is rejected although the language tag and the translated keyword
\* are ill-formed too
C3_Witness ==
    /\ DecodeOf("iTXt")
    /\ args.compression_flag = 128
    /\ args.language_tag_slice = <<128>>
    /\ args.translated_keyword_slice = <<255>>
    /\ res.err = "InvalidCompressionFlag"

\* C4: with a valid keyword, ZTXtChunk::decode rejects every method byte
\* other than 0 and ITXtChunk::decode with flag 255 does too, both with
\* InvalidCompressionMethod; with flag 0 ITXtChunk::decode never returns
\* InvalidCompressionMethod and answers as it does for method byte 0.
C4_CompressionMethod ==
    /\ (DecodeOf("zTXt") /\ Len(args.keyword_slice) \in 1..79
        /\ args.compression_method # 0) =>
            (~res.ok /\ res.err = "InvalidCompressionMethod" /\ rec = NoRec)
    /\ (DecodeOf("iTXt") /\ Len(args.keyword_slice) \in 1..79
        /\ args.compression_flag = 255 /\ args.compression_method # 0) =>
            (~res.ok /\ res.err = "InvalidCompressionMethod" /\ rec = NoRec)
    /\ (DecodeOf("iTXt") /\ args.compression_flag = 0) =>
            /\ res.err # "InvalidCompressionMethod"
            /\ LET z == ITXtChunk_decode(args.keyword_slice, 0, 0,
                                         args.language_tag_slice,
                                         args.translated_keyword_slice,
                                         args.text_slice) IN
               res.ok = z.ok /\ res.err = z.err /\ rec = z.val

\* flag 0 with method byte 255 is decoded
C4_Witness ==
    /\ DecodeOf("iTXt")
    /\ args.compression_flag = 0
    /\ args.compression_method = 255
    /\ res.ok
    /\ rec.kind = "iTXt"

\* the records that hold an OptCompressed
HasState(r) == r.kind \in {"zTXt", "iTXt"}

\* whether inflated bytes are text of the chunk's charset: every byte is a
\* Latin-1 character, UTF-8 has ill-formed sequences
TextOf(kind, raw) == IF kind = "iTXt" THEN Utf8Decode(raw) ELSE Latin1Decode(raw)

\* C5: on Compressed(b) with b not inflatable, get_text and decompress_text
\* return InflationError and the record stays as it was; with b inflatable to
\* bytes that are not text, they return Unrepresentable and the record stays
\* as it was.
C5_InflationError ==
    (HasState(pre) /\ res.op \in {"get_text", "decompress_text"}
     /\ pre.optionally_compressed_text.tag = "Compressed") =>
        LET raw == Inflate(pre.optionally_compressed_text.v) IN
        /\ ~raw.ok =>
              (~res.ok /\ res.err = "InflationError" /\ res.val = <<>>
               /\ rec = pre)
        /\ (raw.ok /\ ~TextOf(pre.kind, raw.val).ok) =>
              (~res.ok /\ res.err = "Unrepresentable" /\ res.val = <<>>
               /\ rec = pre)

\* decompress_text has failed on an iTXt record with a corrupt stream
C5_Witness ==
    /\ res.op = "decompress_text"
    /\ pre.kind = "iTXt"
    /\ pre.optionally_compressed_text = Compressed(<<120, 1, 65, 67>>)
    /\ res.err = "InflationError"
    /\ rec = pre

\* C6: compress_text then decompress_text, and decompress_text then
\* compress_text, leave get_text() as it was; compress_text on a Compressed
\* record and decompress_text on an Uncompressed one return Ok and leave the
\* record as it was.
C6_CompressDecompress ==
    /\ (HasState(pre)
        /\ \/ res.op = "decompress_text" /\ prev.op = "compress_text"
           \/ res.op = "compress_text" /\ prev.op = "decompress_text") =>
            (GetText(rec) = GetText(pre) /\ GetText(rec) = orig)
    /\ (HasState(pre) /\ res.op = "compress_text"
        /\ pre.optionally_compressed_text.tag = "Compressed") =>
            (res.ok /\ rec = pre)
    /\ (HasState(pre) /\ res.op = "decompress_text"
        /\ pre.optionally_compressed_text.tag = "Uncompressed") =>
            (res.ok /\ rec = pre)

\* an iTXt record with a character past Latin-1 was compressed, then
\* decompressed, and both calls changed it
C6_Witness ==
    /\ res.op = "decompress_text" /\ prev.op = "compress_text"
    /\ res.ok /\ prev.ok
    /\ rec.kind = "iTXt"
    /\ pre.optionally_compressed_text.tag = "Compressed"
    /\ rec.optionally_compressed_text = Uncompressed(<<2354, 65>>)
    /\ orig = Ok(<<2354, 65>>)

\* what ITXtChunk::encode writes before the text field
ITXtHead(r) ==
    r.keyword \o <<0, IF r.compressed THEN 255 ELSE 0, 0>> \o r.language_tag
    \o <<0>> \o Utf8Encode(r.translated_keyword) \o <<0>>

\* a keyword and a language tag that ITXtChunk::encode accepts
ITXtHeadOk(r) ==
    /\ Len(r.keyword) \in 1..79
    /\ Latin1Str(r.keyword)
    /\ AsciiStr(r.language_tag)

\* C7: in ITXtChunk::encode the `compressed` field decides the wire form.
\* The flag byte is 255 iff compressed; with compressed the text field is
\* the stored bytes or a stream that inflates to the UTF-8 text, without it
\* the UTF-8 text or the inflation of the stored bytes, and CompressionError
\* with nothing written if they do not inflate.
C7_FlagDrivesWireForm ==
    (res.op = "encode" /\ rec.kind = "iTXt" /\ ITXtHeadOk(rec)) =>
        LET t == rec.optionally_compressed_text
            head == ITXtHead(rec)
            field == From(res.val, Len(head) + 1) IN
        /\ res.ok =>
              /\ SubSeq(res.val, 1, Len(head)) = head
              /\ res.val[Len(rec.keyword) + 2] = 255 <=> rec.compressed
              /\ res.val[Len(rec.keyword) + 2] = 0 <=> ~rec.compressed
        /\ (rec.compressed /\ t.tag = "Compressed") =>
              (res.ok /\ field = t.v)
        /\ (rec.compressed /\ t.tag = "Uncompressed") =>
              (res.ok /\ Inflate(field) = Ok(Utf8Encode(t.v)))
        /\ (~rec.compressed /\ t.tag = "Uncompressed") =>
              (res.ok /\ field = Utf8Encode(t.v))
        /\ (~rec.compressed /\ t.tag = "Compressed" /\ Inflate(t.v).ok) =>
              (res.ok /\ field = Inflate(t.v).val)
        /\ (~rec.compressed /\ t.tag = "Compressed" /\ ~Inflate(t.v).ok) =>
              (~res.ok /\ res.err = "CompressionError" /\ w = <<>>)

\* compressed is false, the record holds a zlib stream, and encode has
\* written the inflated text
C7_Witness ==
    /\ res.op = "encode" /\ res.ok
    /\ rec.kind = "iTXt"
    /\ ~rec.compressed
    /\ rec.optionally_compressed_text = Compressed(<<120, 156, 65, 66>>)
    /\ w = <<[type |-> "iTXt", data |-> ITXtHead(rec) \o <<65>>]>>

\* C8: an encode that returns an error has written nothing to the writer,
\* also when fields had been appended to the buffer; an encode that returns
\* Ok has written the payload, once.
C8_AllOrNothing ==
    res.op = "encode" =>
        /\ ~res.ok =>
              /\ w = <<>>
              /\ res.err \in {"Unrepresentable", "InvalidKeywordSize",
                              "CompressionError"}
        /\ res.ok => w = <<[type |-> rec.kind, data |-> res.val]>>

\* the language tag failed after the keyword, the flag and the method byte
\* had been appended
C8_Witness ==
    /\ res.op = "encode" /\ ~res.ok
    /\ rec.kind = "iTXt"
    /\ res.err = "Unrepresentable"
    /\ Len(res.val) >= Len(rec.keyword) + 3
    /\ w = <<>>

\* C9: a payload that encode has written has the chunk's wire layout: the
\* keyword bytes hold no 0x00 and are followed by 0x00 and the header bytes,
\* the iTXt language tag is 7-bit without 0x00, the translated keyword holds
\* no 0x00, and the iTXt text field is well-formed UTF-8 when the flag is 0.
C9_WireCorrect ==
    (res.op = "encode" /\ res.ok) =>
        LET n == Len(rec.keyword) IN
        /\ n \in 1..79
        /\ NoNul(SubSeq(res.val, 1, n))
        /\ res.val[n + 1] = 0
        /\ rec.kind = "zTXt" => res.val[n + 2] = 0
        /\ rec.kind = "iTXt" =>
              LET l == Len(rec.language_tag)
                  k == Len(Utf8Encode(rec.translated_keyword))
                  lang == SubSeq(res.val, n + 4, n + 3 + l)
                  tkw == SubSeq(res.val, n + 5 + l, n + 4 + l + k)
                  text == From(res.val, n + 6 + l + k) IN
              /\ res.val[n + 2] \in {0, 255}
              /\ res.val[n + 3] = 0
              /\ AsciiStr(lang) /\ NoNul(lang)
              /\ res.val[n + 4 + l] = 0
              /\ NoNul(tkw)
              /\ res.val[n + 5 + l + k] = 0
              /\ res.val[n + 2] = 0 => Utf8Decode(text).ok

\* C10: decode stores, it does not inflate.  With the other fields valid,
\* ZTXtChunk::decode and ITXtChunk::decode with flag 255 return
\* Compressed(text slice) for every text slice; ITXtChunk::decode with flag 0
\* returns Uncompressed(t) with t the UTF-8 reading of the slice, or
\* Unrepresentable when the slice is ill-formed.
C10_DecodeStores ==
    /\ (DecodeOf("zTXt") /\ Len(args.keyword_slice) \in 1..79
        /\ args.compression_method = 0) =>
            /\ res.ok
            /\ rec.optionally_compressed_text = Compressed(args.text_slice)
    /\ (DecodeOf("iTXt") /\ Len(args.keyword_slice) \in 1..79
        /\ AsciiStr(args.language_tag_slice)
        /\ Utf8Decode(args.translated_keyword_slice).ok) =>
            /\ (args.compression_flag = 255 /\ args.compression_method = 0) =>
                  /\ res.ok
                  /\ rec.optionally_compressed_text = Compressed(args.text_slice)
            /\ args.compression_flag = 0 =>
                  IF res.ok
                  THEN /\ rec.optionally_compressed_text.tag = "Uncompressed"
                       /\ Utf8Encode(rec.optionally_compressed_text.v)
                              = args.text_slice
                  ELSE /\ res.err = "Unrepresentable"
                       /\ \A s \in TextStrs : Utf8Encode(s) # args.text_slice

\* ZTXtChunk::decode has stored a slice that is no zlib stream
C10_Witness ==
    /\ DecodeOf("zTXt")
    /\ res.ok
    /\ args.text_slice = <<255>>
    /\ rec.optionally_compressed_text = Compressed(<<255>>)
    /\ ~GetText(rec).ok

\* the zTXt payload around the text field c: keyword, 0x00, method byte 0, c
ZTXtPayload(r, c) == r.keyword \o <<0, 0>> \o c

\* a keyword that ZTXtChunk::encode accepts
ZTXtKeywordOk(r) == Len(r.keyword) \in 1..79 /\ Latin1Str(r.keyword)

\* C11: a ZTXtChunk made from a Latin-1 text t with a valid keyword, by
\* ZTXtChunk::new or as a struct around Compressed(c) with c the compression
\* of t, is encoded to keyword, 0x00, 0, c whatever calls came before: as it
\* is, after compress_text, or holding c from the start.  And every ZTXtChunk
\* in the Compressed state, decoded ones too, has its stored bytes written
\* as they are, inflatable or not.
C11_SamePayload ==
    /\ (res.op = "encode" /\ rec.kind = "zTXt" /\ built = "new"
        /\ ZTXtKeywordOk(rec) /\ orig.ok /\ Latin1Str(orig.val)) =>
            /\ res.ok
            /\ res.val = ZTXtPayload(rec, Deflate(orig.val))
            /\ w = <<[type |-> "zTXt", data |-> res.val]>>
            /\ rec.optionally_compressed_text
                  \in {Uncompressed(orig.val), Compressed(Deflate(orig.val))}
    /\ (res.op = "encode" /\ rec.kind = "zTXt" /\ ZTXtKeywordOk(rec)
        /\ rec.optionally_compressed_text.tag = "Compressed") =>
            /\ res.ok
            /\ res.val = ZTXtPayload(rec, rec.optionally_compressed_text.v)
            /\ w = <<[type |-> "zTXt", data |-> res.val]>>

\* a record made from the keyword "A" and the text "\u{e9}A" went through
\* compress_text and was then encoded
C11_Witness ==
    /\ res.op = "encode" /\ res.ok
    /\ prev.op = "compress_text" /\ prev.ok
    /\ built = "new"
    /\ rec.kind = "zTXt"
    /\ rec.keyword = <<65>>
    /\ orig = Ok(<<233, 65>>)
    /\ rec.optionally_compressed_text = Compressed(<<120, 1, 233, 65, 43>>)
    /\ w = <<[type |-> "zTXt", data |-> <<65, 0, 0, 120, 1, 233, 65, 43>>]>>

\* the methods of a struct that is in hand
MethodCalls == {"compress_text", "decompress_text", "get_text", "encode"}

Variant(r) == r.optionally_compressed_text.tag

\* C12: through every sequence of compress_text, decompress_text, get_text
\* and encode on a ZTXtChunk or ITXtChunk, get_text() answers what it
\* answered when the struct was made (the text or the error); no call
\* changes the keyword, the compressed flag, the language tag or the
\* translated keyword; the variant changes only to Compressed by a
\* compress_text that returned Ok and to Uncompressed by a decompress_text
\* that returned Ok; get_text, encode and every call that returned an error
\* leave the struct as it was.
C12_StateStable ==
    /\ HasState(rec) => GetText(rec) = orig
    /\ (HasState(pre) /\ res.op \in MethodCalls) =>
        /\ SameFields(rec, pre)
        /\ GetText(pre) = orig
        /\ res.op = "get_text" =>
              (res.ok = orig.ok /\ res.err = orig.err /\ res.val = orig.val)
        /\ Variant(rec) # Variant(pre) =>
              /\ res.ok
              /\ \/ res.op = "compress_text" /\ Variant(rec) = "Compressed"
                 \/ res.op = "decompress_text" /\ Variant(rec) = "Uncompressed"
        /\ (res.op \in {"get_text", "encode"} \/ ~res.ok) => rec = pre

\* an ITXtChunk decoded with flag 0 was compressed by compress_text: the
\* flag is still false, and get_text on the Compressed variant returns the
\* text the chunk was decoded with
C12_Witness ==
    /\ res.op = "get_text" /\ res.ok /\ res.val = <<65>>
    /\ prev.op = "compress_text" /\ prev.ok
    /\ built = "decode"
    /\ rec.kind = "iTXt"
    /\ ~rec.compressed
    /\ rec.optionally_compressed_text = Compressed(<<120, 1, 65, 66>>)
    /\ orig = Ok(<<65>>)

====
